---- MODULE Spec2Model ----
(***************************************************************************)
(* MinHash signatures and LSH band keys: a model of class SetSignatures of *)
(* set_signatures.py.                                                      *)
(*                                                                         *)
(* Representation.  A 64-bit unsigned value (np.uint64, the result of      *)
(* mmh3.hash64) is a little-endian sequence of 8 bytes, exactly the layout *)
(* of dtype '<u8' that _compute_lsh_key_int hashes.  A Python int (an LSH  *)
(* key) is a little-endian byte sequence of any length without trailing    *)
(* zero bytes.  A float (threshold, s) is a fixed-point integer in units   *)
(* of 1/Scale.  A text is a sequence of character codes.                   *)
(***************************************************************************)
EXTENDS Integers, Sequences, FiniteSets, TLC

(* ------------------------------ bounds --------------------------------- *)
MaxNumPerm == 4
MaxShingle == 2
MaxTextLen == 2
MaxBatch == 2
MaxPickPerm == 12
Scale == 10000

(* --------------------- unbounded / 64-bit arithmetic ------------------- *)
Base == 2 ^ 8
WordBytes == 8

Zeros(n) == [k \in 1..n |-> 0]

RECURSIVE IntToBytes(_)
IntToBytes(n) == IF n = 0 THEN <<>> ELSE <<n % Base>> \o IntToBytes(n \div Base)

\* the value x truncated (or zero-extended) to n bytes: x mod 2^(8n)
Pad(x, n) == [k \in 1..n |-> IF k <= Len(x) THEN x[k] ELSE 0]

RECURSIVE Norm(_)
Norm(x) == IF x = <<>> THEN <<>>
           ELSE IF x[Len(x)] = 0 THEN Norm(SubSeq(x, 1, Len(x) - 1))
           ELSE x

RECURSIVE AddC(_, _, _, _)
\* bytes k.. of x + y + carry, x and y of the same length
AddC(x, y, k, c) ==
    IF k > Len(x) THEN <<c>>
    ELSE LET t == x[k] + y[k] + c
         IN  <<t % Base>> \o AddC(x, y, k + 1, t \div Base)

\* exact sum
Add(x, y) ==
    LET n == IF Len(x) >= Len(y) THEN Len(x) ELSE Len(y)
    IN  AddC(Pad(x, n), Pad(y, n), 1, 0)

\* column k (from 0) of the schoolbook product: sum of x[i] * y[j], i + j = k
MulColumn(x, y, k) ==
    LET RECURSIVE Col(_)
        Col(i) == IF i > Len(x) THEN 0
                  ELSE (IF k + 2 - i >= 1 /\ k + 2 - i <= Len(y) THEN x[i] * y[k + 2 - i] ELSE 0)
                       + Col(i + 1)
    IN  Col(1)

RECURSIVE Carry(_, _, _)
\* the bytes of the number whose columns k.. are cols, with carry c coming in
Carry(cols, k, c) ==
    IF k > Len(cols) THEN IntToBytes(c)
    ELSE <<(cols[k] + c) % Base>> \o Carry(cols, k + 1, (cols[k] + c) \div Base)

\* exact product
Mul(x, y) ==
    IF x = <<>> \/ y = <<>> THEN <<>>
    ELSE Carry([k \in 1..(Len(x) + Len(y) - 1) |-> MulColumn(x, y, k - 1)], 1, 0)

RECURSIVE LessFrom(_, _, _)
\* x < y looking at bytes k, k-1, ..., 1 (same length)
LessFrom(x, y, k) ==
    IF k = 0 THEN FALSE
    ELSE IF x[k] # y[k] THEN x[k] < y[k]
    ELSE LessFrom(x, y, k - 1)

Less(x, y) ==
    LET n == IF Len(x) >= Len(y) THEN Len(x) ELSE Len(y)
    IN  LessFrom(Pad(x, n), Pad(y, n), n)

RECURSIVE SubC(_, _, _, _)
SubC(x, y, k, brw) ==
    IF k > Len(x) THEN <<>>
    ELSE LET t == x[k] - y[k] - brw
         IN  IF t < 0 THEN <<t + Base>> \o SubC(x, y, k + 1, 1)
                      ELSE <<t>> \o SubC(x, y, k + 1, 0)

\* x - y for x >= y
Sub(x, y) ==
    LET n == IF Len(x) >= Len(y) THEN Len(x) ELSE Len(y)
    IN  SubC(Pad(x, n), Pad(y, n), 1, 0)

RECURSIVE Mod(_, _)
\* x mod m by repeated subtraction (used where x < 8 * m)
Mod(x, m) == IF Less(x, m) THEN x ELSE Mod(Sub(x, m), m)

RECURSIVE BitAndInt(_, _, _)
\* bitwise and of two bytes, bit by bit
BitAndInt(p, q, n) ==
    IF n = 0 THEN 0
    ELSE (IF p % 2 = 1 /\ q % 2 = 1 THEN 1 ELSE 0)
         + 2 * BitAndInt(p \div 2, q \div 2, n - 1)

RECURSIVE BitOrInt(_, _, _)
BitOrInt(p, q, n) ==
    IF n = 0 THEN 0
    ELSE (IF p % 2 = 1 \/ q % 2 = 1 THEN 1 ELSE 0)
         + 2 * BitOrInt(p \div 2, q \div 2, n - 1)

\* numpy uint64 operators: results wrap modulo 2^64
U64Mul(x, y) == Pad(Mul(x, y), WordBytes)
U64Add(x, y) == Pad(Add(x, y), WordBytes)
U64Mod(x, m) == Pad(Mod(x, m), WordBytes)
U64And(x, y) == [k \in 1..WordBytes |-> BitAndInt(x[k], y[k], 8)]

\* Python int operators: unbounded
RECURSIVE BytesToInt(_)
BytesToInt(x) == IF x = <<>> THEN 0 ELSE x[1] + Base * BytesToInt(Tail(x))

PyShiftLeft(x, bits) == Norm(Zeros(bits \div 8) \o x)
PyShiftRight(x, bits) ==
    IF Len(x) <= bits \div 8 THEN <<>> ELSE SubSeq(x, bits \div 8 + 1, Len(x))
PyOr(x, y) ==
    LET n == IF Len(x) >= Len(y) THEN Len(x) ELSE Len(y)
    IN  Norm([k \in 1..n |-> BitOrInt(Pad(x, n)[k], Pad(y, n)[k], 8)])

\* module constants of set_signatures.py
_PRIME == <<255, 255, 255, 255, 255, 255, 255, 31>>
_MAX_HASH == <<255, 255, 255, 255, 0, 0, 0, 0>>

VARIABLES
    lib,     \* which behaviour the external libraries (mmh3, numpy's generator) show
    self,    \* the fields of the SetSignatures instance
    life,    \* "new" | "constructed" | "failed" : outcome of SetSignatures(...)
    call     \* per caller: the call in progress, its locals and its outcome

vars == <<lib, self, life, call>>

(* ----------------------- external libraries ---------------------------- *)
Libs == {1, 2}

RECURSIVE WSum(_, _, _)
WSum(data, k, i) ==
    IF i > Len(data) THEN 0 ELSE data[i] * (i + k) + WSum(data, k, i + 1)

\* mmh3.hash64(data, seed=seed, signed=False)[0]: some deterministic 64-bit
\* function of the bytes and the seed.  lib = 1 mixes every byte into every
\* output byte; lib = 2 is a function that collides on all data of equal
\* length parity.
Hash64(data, seed) ==
    IF lib = 1
    THEN [k \in 1..WordBytes |-> (WSum(data, k, 1) + seed * k + 37 * k + Len(data)) % Base]
    ELSE [k \in 1..WordBytes |-> IF k = 1 THEN 255 - (Len(data) % 2) ELSE 255]

\* values in [0, P-2] the generator's stream is made of
DrawTable == << <<240, 222, 188, 154, 120, 86, 52, 18>>,
                <<253, 255, 255, 255, 255, 255, 255, 31>>,
                <<0, 0, 0, 0, 0, 0, 0, 0>>,
                <<33, 67, 101, 135, 169, 203, 237, 15>>,
                <<255, 255, 255, 255, 0, 0, 0, 0>> >>

\* np.random.default_rng(seed).integers(low, _PRIME, size=size, dtype=uint64)
\* issued at position pos of the generator's stream: size values in
\* [low, P-1], a function of the seed; a negative size raises ValueError.
RngIntegers(seed, pos, low, size) ==
    IF size < 0
    THEN [err |-> "ValueError", val |-> <<>>]
    ELSE [err |-> "none",
          val |-> [k \in 1..size |->
                     U64Add(low, DrawTable[((seed * lib + pos + k) % Len(DrawTable)) + 1])]]

(* ------------------------------ floats --------------------------------- *)
RECURSIVE FPowInt(_, _)
\* (y/Scale)^r in fixed point
FPowInt(y, r) == IF r = 0 THEN Scale ELSE (FPowInt(y, r - 1) * y) \div Scale

RECURSIVE FRootSearch(_, _, _, _)
\* the largest y in lo..hi with (y/Scale)^r <= x/Scale
FRootSearch(x, r, lo, hi) ==
    IF lo = hi THEN lo
    ELSE LET mid == (lo + hi + 1) \div 2
         IN  IF FPowInt(mid, r) <= x THEN FRootSearch(x, r, mid, hi)
                                     ELSE FRootSearch(x, r, lo, mid - 1)

\* x ** (1 / r) for 0 <= x <= 1
FRoot(x, r) == FRootSearch(x, r, 0, Scale)

\* 1 / b
FInv(b) == Scale \div b

FAbs(x) == IF x < 0 THEN -x ELSE x

(* ------------------------------ strings -------------------------------- *)
PyClip(x, n) == IF x < 0 THEN (IF x + n < 0 THEN 0 ELSE x + n)
                ELSE (IF x > n THEN n ELSE x)

\* seq[i:j] of Python (and numpy)
PySlice(seq, i, j) ==
    LET lo == PyClip(i, Len(seq))
        hi == PyClip(j, Len(seq))
    IN  IF lo < hi THEN SubSeq(seq, lo + 1, hi) ELSE <<>>

\* range(n)
PyRange(n) == 0..(n - 1)

(* --------------------------- SetSignatures ----------------------------- *)
_permutations(num_perm, seed) ==
    LET a == RngIntegers(seed, 0, <<1, 0, 0, 0, 0, 0, 0, 0>>, num_perm)
        b == RngIntegers(seed, num_perm, Zeros(WordBytes), num_perm)
    IN  IF a.err # "none" THEN [err |-> a.err, a |-> <<>>, b |-> <<>>]
        ELSE IF b.err # "none" THEN [err |-> b.err, a |-> <<>>, b |-> <<>>]
        ELSE [err |-> "none", a |-> a.val, b |-> b.val]

RECURSIVE CandidatesNoDivisorTest(_, _, _)
\* _pick_b_r without "if num_perm % r != 0: continue"
CandidatesNoDivisorTest(num_perm, threshold, r) ==
    IF r > num_perm THEN <<>>
    ELSE LET b == num_perm \div r
             s == FRoot(FInv(b), r)
         IN  << <<b, r, s, FAbs(s - threshold)>> >>
             \o CandidatesNoDivisorTest(num_perm, threshold, r + 1)

RECURSIVE Candidates(_, _, _)
\* the list built by the loop of _pick_b_r, for r, r+1, ..., num_perm
Candidates(num_perm, threshold, r) ==
    IF r > num_perm THEN <<>>
    ELSE IF num_perm % r # 0 THEN Candidates(num_perm, threshold, r + 1)
    ELSE LET b == num_perm \div r
             s == FRoot(FInv(b), r)
         IN  << <<b, r, s, FAbs(s - threshold)>> >> \o Candidates(num_perm, threshold, r + 1)

RECURSIVE PyMinLastByDist(_, _, _)
\* a minimum that keeps the last of several least elements
PyMinLastByDist(cands, k, best) ==
    IF k > Len(cands) THEN best
    ELSE IF cands[k][4] <= best[4] THEN PyMinLastByDist(cands, k + 1, cands[k])
    ELSE PyMinLastByDist(cands, k + 1, best)

RECURSIVE PyMinByDist(_, _, _)
\* min(candidates, key=lambda x: x[3]): the first element of least key
PyMinByDist(cands, k, best) ==
    IF k > Len(cands) THEN best
    ELSE IF cands[k][4] < best[4] THEN PyMinByDist(cands, k + 1, cands[k])
    ELSE PyMinByDist(cands, k + 1, best)

_pick_b_r(num_perm, threshold) ==
    LET candidates == Candidates(num_perm, threshold, 1)
    IN  IF candidates = <<>>
        THEN [err |-> "ValueError", val |-> <<>>]
        ELSE [err |-> "none",
              val |-> SubSeq(PyMinByDist(candidates, 2, candidates[1]), 1, 3)]

Unborn == [num_perm |-> 0, seed |-> 0, shingle_size |-> 0, treshold |-> 0,
           a |-> <<>>, b |-> <<>>,
           num_bands |-> 0, rows_per_band |-> 0, actual_treshold |-> 0]

\* SetSignatures.__init__
NewInstance(num_perm, seed, shingle_size, treshold) ==
    LET perms == _permutations(num_perm, seed)
        brs == _pick_b_r(num_perm, treshold)
    IN  IF perms.err # "none" THEN [err |-> perms.err, val |-> Unborn]
        ELSE IF brs.err # "none" THEN [err |-> brs.err, val |-> Unborn]
        ELSE [err |-> "none",
              val |-> [num_perm |-> num_perm, seed |-> seed,
                       shingle_size |-> shingle_size, treshold |-> treshold,
                       a |-> perms.a, b |-> perms.b,
                       num_bands |-> brs.val[1], rows_per_band |-> brs.val[2],
                       actual_treshold |-> brs.val[3]]]

\* shingles with range(len(text) - shingle_size)
shinglesShortRange(obj, text) ==
    {PySlice(text, i, i + obj.shingle_size) :
        i \in PyRange(Len(text) - obj.shingle_size)}

shingles(obj, text) ==
    {PySlice(text, i, i + obj.shingle_size) :
        i \in PyRange(Len(text) - obj.shingle_size + 1)}

\* one entry of permuted_hashes
Permuted(obj, shingle, i) ==
    LET basehash == U64Mod(Hash64(shingle, obj.seed), _PRIME)
    IN  U64And(U64Mod(U64Add(U64Mul(basehash, obj.a[i]), obj.b[i]), _PRIME), _MAX_HASH)

SetMin(S) == CHOOSE v \in S : \A w \in S : ~Less(w, v)

\* _compute_minhash reducing with an initial value (no failure on no rows)
_compute_minhash_initial(obj, shgl) ==
    [err |-> "none",
     val |-> [i \in 1..obj.num_perm |->
                SetMin({_MAX_HASH} \cup {Permuted(obj, sh, i) : sh \in shgl})]]

_compute_minhash(obj, shgl) ==
    IF shgl = {}
    THEN [err |-> "ValueError", val |-> <<>>]
    ELSE [err |-> "none",
          val |-> [i \in 1..obj.num_perm |->
                     SetMin({Permuted(obj, sh, i) : sh \in shgl})]]

RECURSIVE Flatten(_)
\* ndarray.tobytes() of an array of '<u8'
Flatten(sig) == IF sig = <<>> THEN <<>> ELSE sig[1] \o Flatten(Tail(sig))

\* a key that ors the band into the bucket without the shift
BandKeyNoShift(obj, sig, band) ==
    LET s == band * obj.rows_per_band
        e == s + obj.rows_per_band
        bucket64 == Hash64(Flatten(PySlice(sig, s, e)), obj.seed)
    IN  PyOr(IntToBytes(band), Norm(bucket64))

BandKey(obj, sig, band) ==
    LET s == band * obj.rows_per_band
        e == s + obj.rows_per_band
        bucket64 == Hash64(Flatten(PySlice(sig, s, e)), obj.seed)
    IN  PyOr(PyShiftLeft(IntToBytes(band), 64), Norm(bucket64))

_compute_lsh_key_int(obj, sig) ==
    [j \in 1..obj.num_bands |-> BandKey(obj, sig, j - 1)]

\* the three statements of get_lsh_key (and of the loop body of
\* get_batch_lsh_key) on one text
KeysOfText(obj, text) ==
    CHOOSE frame \in
        {IF mh.err # "none"
         THEN [err |-> mh.err, shingles |-> shingles(obj, text),
               minhash_signature |-> <<>>, lsh_keys |-> <<>>]
         ELSE [err |-> "none", shingles |-> shingles(obj, text),
               minhash_signature |-> mh.val,
               lsh_keys |-> _compute_lsh_key_int(obj, mh.val)]
           : mh \in {_compute_minhash(obj, shingles(obj, text))}} : TRUE

(* ------------------------------ inputs --------------------------------- *)
Alphabet == {97, 98}

RECURSIVE TextsUpTo(_)
TextsUpTo(n) ==
    IF n = 0 THEN {<<>>}
    ELSE LET T == TextsUpTo(n - 1)
         IN  T \cup {Append(t, ch) : t \in {u \in T : Len(u) = n - 1}, ch \in Alphabet}

Texts == TextsUpTo(MaxTextLen)

RECURSIVE SeqsUpTo(_, _)
SeqsUpTo(S, n) ==
    IF n = 0 THEN {<<>>}
    ELSE LET Q == SeqsUpTo(S, n - 1)
         IN  Q \cup {Append(q, x) : q \in {u \in Q : Len(u) = n - 1}, x \in S}

\* the texts batches are made of: the three longest of "", "a", "ab", "aba", ...
BatchTexts == {[k \in 1..n |-> IF k % 2 = 1 THEN 97 ELSE 98] :
                  n \in {m \in 0..MaxTextLen : m + 2 >= MaxTextLen}}

Batches == SeqsUpTo(BatchTexts, MaxBatch)

NumPerms == (-1)..MaxNumPerm
Seeds == {42}
ShingleSizes == (-1)..MaxShingle
Thresholds == {0, (Scale * 3) \div 4, Scale}

(* ------------------------------ actions -------------------------------- *)
Idle == [pc |-> "idle", op |-> "none", texts |-> <<>>, i |-> 0, all_keys |-> <<>>,
         shingles |-> {}, minhash_signature |-> <<>>, lsh_keys |-> <<>>,
         ret |-> <<>>, err |-> "none"]

Init == /\ lib \in Libs
        /\ self = Unborn
        /\ life = "new"
        /\ call = [c \in {1} |-> Idle]

Construct(NP, SD, SS, TH) ==
    /\ life = "new"
    /\ \E num_perm \in NP, seed \in SD, shingle_size \in SS, treshold \in TH :
         LET r == NewInstance(num_perm, seed, shingle_size, treshold)
         IN  /\ self' = r.val
             /\ life' = IF r.err = "none" THEN "constructed" ELSE "failed"
    /\ UNCHANGED <<lib, call>>

Start(c, op, texts) ==
    /\ life = "constructed"
    /\ call[c].pc = "idle"
    /\ call' = [call EXCEPT ![c] = [Idle EXCEPT !.pc = "running", !.op = op, !.texts = texts]]
    /\ UNCHANGED <<lib, self, life>>

CallShingles(c, T) == \E text \in T : Start(c, "shingles", <<text>>)
CallGetLshKey(c, T) == \E text \in T : Start(c, "get_lsh_key", <<text>>)
CallBatch(c, B) == \E texts \in B : Start(c, "get_batch_lsh_key", texts)

ShinglesBody(c) ==
    /\ call[c].pc = "running" /\ call[c].op = "shingles"
    /\ call' = [call EXCEPT ![c].pc = "done",
                            ![c].ret = <<shingles(self, call[c].texts[1])>>]
    /\ UNCHANGED <<lib, self, life>>

\* get_lsh_key that advances the instance's seed on every call
GetLshKeyBodyReseeding(c) ==
    /\ call[c].pc = "running" /\ call[c].op = "get_lsh_key"
    /\ \E k \in {KeysOfText(self, call[c].texts[1])} :
           call' = [call EXCEPT ![c].pc = "done",
                                ![c].shingles = k.shingles,
                                ![c].minhash_signature = k.minhash_signature,
                                ![c].lsh_keys = k.lsh_keys,
                                ![c].err = k.err,
                                ![c].ret = IF k.err = "none" THEN <<k.lsh_keys>> ELSE <<>>]
    /\ self' = [self EXCEPT !.seed = @ + 1]
    /\ UNCHANGED <<lib, life>>

GetLshKeyBody(c) ==
    /\ call[c].pc = "running" /\ call[c].op = "get_lsh_key"
    /\ \E k \in {KeysOfText(self, call[c].texts[1])} :
           call' = [call EXCEPT ![c].pc = "done",
                                ![c].shingles = k.shingles,
                                ![c].minhash_signature = k.minhash_signature,
                                ![c].lsh_keys = k.lsh_keys,
                                ![c].err = k.err,
                                ![c].ret = IF k.err = "none" THEN <<k.lsh_keys>> ELSE <<>>]
    /\ UNCHANGED <<lib, self, life>>

\* a loop body that puts the new keys in front of all_keys
BatchIterPrepend(c) ==
    /\ call[c].pc = "running" /\ call[c].op = "get_batch_lsh_key"
    /\ call[c].i < Len(call[c].texts)
    /\ \E k \in {KeysOfText(self, call[c].texts[call[c].i + 1])} :
           call' = [call EXCEPT ![c].pc = IF k.err = "none" THEN "running" ELSE "done",
                                ![c].i = IF k.err = "none" THEN @ + 1 ELSE @,
                                ![c].shingles = k.shingles,
                                ![c].minhash_signature = k.minhash_signature,
                                ![c].lsh_keys = k.lsh_keys,
                                ![c].all_keys = IF k.err = "none" THEN <<k.lsh_keys>> \o @ ELSE @,
                                ![c].err = k.err]
    /\ UNCHANGED <<lib, self, life>>

\* a loop body that swallows the failure of a text and returns what it has
BatchIterPartial(c) ==
    /\ call[c].pc = "running" /\ call[c].op = "get_batch_lsh_key"
    /\ call[c].i < Len(call[c].texts)
    /\ \E k \in {KeysOfText(self, call[c].texts[call[c].i + 1])} :
           call' = [call EXCEPT ![c].pc = IF k.err = "none" THEN "running" ELSE "done",
                                ![c].i = IF k.err = "none" THEN @ + 1 ELSE @,
                                ![c].shingles = k.shingles,
                                ![c].minhash_signature = k.minhash_signature,
                                ![c].lsh_keys = k.lsh_keys,
                                ![c].all_keys = IF k.err = "none" THEN Append(@, k.lsh_keys) ELSE @,
                                ![c].ret = IF k.err = "none" THEN @ ELSE <<call[c].all_keys>>]
    /\ UNCHANGED <<lib, self, life>>

BatchIter(c) ==
    /\ call[c].pc = "running" /\ call[c].op = "get_batch_lsh_key"
    /\ call[c].i < Len(call[c].texts)
    /\ \E k \in {KeysOfText(self, call[c].texts[call[c].i + 1])} :
           call' = [call EXCEPT ![c].pc = IF k.err = "none" THEN "running" ELSE "done",
                                ![c].i = IF k.err = "none" THEN @ + 1 ELSE @,
                                ![c].shingles = k.shingles,
                                ![c].minhash_signature = k.minhash_signature,
                                ![c].lsh_keys = k.lsh_keys,
                                ![c].all_keys = IF k.err = "none" THEN Append(@, k.lsh_keys) ELSE @,
                                ![c].err = k.err]
    /\ UNCHANGED <<lib, self, life>>

BatchReturn(c) ==
    /\ call[c].pc = "running" /\ call[c].op = "get_batch_lsh_key"
    /\ call[c].i = Len(call[c].texts)
    /\ call' = [call EXCEPT ![c].pc = "done", ![c].ret = <<call[c].all_keys>>]
    /\ UNCHANGED <<lib, self, life>>

\* the caller takes the outcome; its frame is gone
Return(c) ==
    /\ call[c].pc = "done"
    /\ call' = [call EXCEPT ![c] = Idle]
    /\ UNCHANGED <<lib, self, life>>

Next ==
    \/ Construct(NumPerms, Seeds, ShingleSizes, Thresholds)
    \/ \E c \in DOMAIN call : CallShingles(c, Texts)
    \/ \E c \in DOMAIN call : CallGetLshKey(c, Texts)
    \/ \E c \in DOMAIN call : CallBatch(c, Batches)
    \/ \E c \in DOMAIN call : ShinglesBody(c)
    \/ \E c \in DOMAIN call : GetLshKeyBody(c)
    \/ \E c \in DOMAIN call : BatchIter(c)
    \/ \E c \in DOMAIN call : BatchReturn(c)
    \/ \E c \in DOMAIN call : Return(c)

Spec == Init /\ [][Next]_vars

(* ------------------- the other specifications -------------------------- *)
\* _pick_b_r over many num_perm and thresholds
PickThresholds == {(Scale * k) \div 20 : k \in 1..19}

NextPick == Construct(1..MaxPickPerm, Seeds, {3}, PickThresholds)

SpecPick == Init /\ [][NextPick]_vars

\* shingles over longer texts
WideTexts == TextsUpTo(MaxTextLen + 2) \cup {<<97, 98, 99, 100, 101>>}

NextShingles ==
    \/ Construct({1}, Seeds, 1..(MaxShingle + 1), {(Scale * 3) \div 4})
    \/ \E c \in DOMAIN call : CallShingles(c, WideTexts)
    \/ \E c \in DOMAIN call : ShinglesBody(c)
    \/ \E c \in DOMAIN call : Return(c)

SpecShingles == Init /\ [][NextShingles]_vars

\* two callers on one shared instance, their steps interleaved
ConcTexts == {<<97>>, <<97, 98>>}
ConcBatches == {<<t1, t2>> : t1 \in ConcTexts, t2 \in ConcTexts}

InitConc == /\ lib \in Libs
            /\ self = Unborn
            /\ life = "new"
            /\ call = [c \in {1, 2} |-> Idle]

NextConc ==
    \/ Construct({MaxNumPerm}, Seeds, {2}, {(Scale * 3) \div 4})
    \/ \E c \in DOMAIN call : CallShingles(c, ConcTexts)
    \/ \E c \in DOMAIN call : CallGetLshKey(c, ConcTexts)
    \/ \E c \in DOMAIN call : CallBatch(c, ConcBatches)
    \/ \E c \in DOMAIN call : ShinglesBody(c)
    \/ \E c \in DOMAIN call : GetLshKeyBody(c)
    \/ \E c \in DOMAIN call : BatchIter(c)
    \/ \E c \in DOMAIN call : BatchReturn(c)
    \/ \E c \in DOMAIN call : Return(c)

SpecConc == InitConc /\ [][NextConc]_vars

(* ------------------------------ claims --------------------------------- *)
Done(c, op) == call[c].pc = "done" /\ call[c].op = op

\* C1: construction never succeeds when num_perm <= 0, or shingle_size <= 0,
\* or the threshold is outside the open interval (0,1): every constructed
\* instance has num_perm > 0, shingle_size > 0 and 0 < threshold < 1.
C1_InvalidConfigRejected ==
    life = "constructed" =>
        /\ self.num_perm > 0
        /\ self.shingle_size > 0
        /\ 0 < self.treshold /\ self.treshold < Scale

\* C2: get_lsh_key on a text shorter than shingle_size ends in a failure and
\* returns nothing: no signature and no key list was built.
C2_ShortTextFails ==
    \A c \in DOMAIN call :
        (Done(c, "get_lsh_key") /\ Len(call[c].texts[1]) < self.shingle_size) =>
            /\ call[c].err # "none"
            /\ call[c].ret = <<>>
            /\ call[c].minhash_signature = <<>>
            /\ call[c].lsh_keys = <<>>

C2_Witness ==
    \E c \in DOMAIN call :
        /\ Done(c, "get_lsh_key")
        /\ Len(call[c].texts[1]) < self.shingle_size
        /\ call[c].shingles = {}
        /\ call[c].err = "ValueError"

\* C3: every constructed instance has num_bands >= 1, rows_per_band >= 1 and
\* num_bands * rows_per_band = num_perm, in every state, whatever calls were made.
C3_BandLayout ==
    life = "constructed" =>
        /\ self.num_bands >= 1
        /\ self.rows_per_band >= 1
        /\ self.num_bands * self.rows_per_band = self.num_perm

C3_Witness ==
    /\ life = "constructed"
    /\ self.num_bands >= 2 /\ self.rows_per_band >= 2
    /\ \E c \in DOMAIN call : Done(c, "get_batch_lsh_key") /\ call[c].i = MaxBatch

\* C4: the layout chosen by _pick_b_r is a divisor pair of num_perm whose
\* s = (1/b)^(1/r) is at least as close to the threshold as that of every
\* divisor pair, and among the pairs exactly as close it has the smallest r.
DivisorPairs(n) == {p \in (1..n) \X (1..n) : p[1] * p[2] = n}
SOf(p) == FRoot(FInv(p[1]), p[2])
DistOf(p, t) == FAbs(SOf(p) - t)

C4_PickIsClosest ==
    life = "constructed" =>
        LET chosen == <<self.num_bands, self.rows_per_band>>
        IN  /\ chosen \in DivisorPairs(self.num_perm)
            /\ self.actual_treshold = SOf(chosen)
            /\ \A p \in DivisorPairs(self.num_perm) :
                  /\ DistOf(chosen, self.treshold) <= DistOf(p, self.treshold)
                  /\ DistOf(chosen, self.treshold) = DistOf(p, self.treshold)
                        => chosen[2] <= p[2]

C4_Witness ==
    /\ life = "constructed"
    /\ \E p \in DivisorPairs(self.num_perm) :
          /\ p # <<self.num_bands, self.rows_per_band>>
          /\ DistOf(p, self.treshold)
                = DistOf(<<self.num_bands, self.rows_per_band>>, self.treshold)

\* C5: every slot i of a signature is the least, over the shingles, of
\* ((base_hash * a_i + b_i) mod P) & 0xFFFFFFFF with the product and the sum
\* computed exactly (no wrap at 64 bits), and the signature has num_perm slots.
Lo61(x) == [k \in 1..WordBytes |-> IF k = WordBytes THEN Pad(x, WordBytes)[k] % 32
                                   ELSE Pad(x, WordBytes)[k]]
Hi61(x) ==
    IF Len(x) < WordBytes THEN <<>>
    ELSE Norm([k \in 1..(Len(x) - WordBytes + 1) |->
                 (x[k + WordBytes - 1] \div 32)
                 + (IF k + WordBytes <= Len(x) THEN (x[k + WordBytes] % 32) * 8 ELSE 0)])

RECURSIVE ModPrimeExact(_)
\* x mod (2^61 - 1) for x of any size: 2^61 = 1 modulo _PRIME
ModPrimeExact(x) ==
    IF Hi61(x) = <<>>
    THEN (IF Pad(x, WordBytes) = _PRIME THEN Zeros(WordBytes) ELSE Pad(x, WordBytes))
    ELSE ModPrimeExact(Add(Hi61(x), Lo61(x)))

ExactPermuted(obj, shingle, i) ==
    LET basehash == ModPrimeExact(Hash64(shingle, obj.seed))
    IN  Pad(Pad(ModPrimeExact(Add(Mul(basehash, obj.a[i]), obj.b[i])), 4), WordBytes)

C5_ExactPermutation ==
    \A c \in DOMAIN call :
        (/\ Done(c, "get_lsh_key") /\ call[c].err = "none"
         /\ self.shingle_size >= 1
         /\ 0 < self.treshold /\ self.treshold < Scale) =>
            /\ Len(call[c].minhash_signature) = self.num_perm
            /\ \A i \in 1..self.num_perm :
                  call[c].minhash_signature[i]
                     = SetMin({ExactPermuted(self, sh, i) : sh \in call[c].shingles})

\* C6: the keys of a signature are num_bands keys in band order; key j has
\* j in the bits above bit 63 and, in its low 64 bits, the hash of the slots
\* [j*rows_per_band, (j+1)*rows_per_band); each slot lies in exactly one
\* slice; keys of different bands differ.
C6_BandKeys ==
    \A c \in DOMAIN call :
        (Done(c, "get_lsh_key") /\ call[c].err = "none") =>
            LET keys == call[c].lsh_keys
                sig == call[c].minhash_signature
                rows == self.rows_per_band
            IN  /\ Len(keys) = self.num_bands
                /\ \A j \in 1..Len(keys) :
                      /\ BytesToInt(PyShiftRight(keys[j], 64)) = j - 1
                      /\ Pad(keys[j], WordBytes)
                            = Hash64(Flatten(SubSeq(sig, (j - 1) * rows + 1, j * rows)), self.seed)
                /\ \A i \in 1..Len(sig) :
                      Cardinality({j \in 1..Len(keys) :
                                      (j - 1) * rows + 1 <= i /\ i <= j * rows}) = 1
                /\ \A j1, j2 \in 1..Len(keys) : j1 # j2 => keys[j1] # keys[j2]

C6_Witness ==
    \E c \in DOMAIN call :
        /\ Done(c, "get_lsh_key") /\ call[c].err = "none"
        /\ self.num_bands >= 2 /\ self.rows_per_band >= 2
        /\ Pad(call[c].lsh_keys[1], WordBytes) = Pad(call[c].lsh_keys[2], WordBytes)

\* C7: a batch of texts each at least shingle_size long returns one key list
\* per text, in the order of the texts, the i-th being what get_lsh_key
\* returns for the i-th text alone.
C7_BatchIsPointwise ==
    \A c \in DOMAIN call :
        (/\ Done(c, "get_batch_lsh_key")
         /\ \A k \in 1..Len(call[c].texts) : Len(call[c].texts[k]) >= self.shingle_size) =>
            /\ call[c].err = "none"
            /\ Len(call[c].ret) = 1
            /\ Len(call[c].ret[1]) = Len(call[c].texts)
            /\ \A k \in 1..Len(call[c].texts) :
                  /\ KeysOfText(self, call[c].texts[k]).err = "none"
                  /\ call[c].ret[1][k] = KeysOfText(self, call[c].texts[k]).lsh_keys

C7_Witness ==
    \E c \in DOMAIN call :
        /\ Done(c, "get_batch_lsh_key") /\ call[c].err = "none"
        /\ Len(call[c].texts) = 2
        /\ Len(call[c].ret) = 1
        /\ call[c].ret[1][1] # call[c].ret[1][2]

\* C8: for shingle_size k >= 1, shingles(text) is the set of the substrings
\* text[i:i+k], 0 <= i <= n-k: all of length k, at most n-k+1 of them, and
\* none when n < k; "abcde" with k = 3 gives {"abc","bcd","cde"}, "ab" gives {}.
C8_ShinglesAreSubstrings ==
    \A c \in DOMAIN call :
        (Done(c, "shingles") /\ self.shingle_size >= 1) =>
            LET text == call[c].texts[1]
                n == Len(text)
                k == self.shingle_size
                got == call[c].ret[1]
            IN  /\ got = {SubSeq(text, i + 1, i + k) : i \in 0..(n - k)}
                /\ \A sh \in got : Len(sh) = k
                /\ n >= k => (got # {} /\ Cardinality(got) <= n - k + 1)
                /\ n < k => got = {}
                /\ (k = 3 /\ text = <<97, 98, 99, 100, 101>>)
                      => got = {<<97, 98, 99>>, <<98, 99, 100>>, <<99, 100, 101>>}
                /\ (k = 3 /\ text = <<97, 98>>) => got = {}

C8_Witness ==
    \E c \in DOMAIN call :
        /\ Done(c, "shingles") /\ self.shingle_size = 3
        /\ call[c].texts[1] = <<97, 98, 99, 100, 101>>
        /\ Cardinality(call[c].ret[1]) = 3

\* C9: once constructed the instance's fields never change, and with two
\* callers' steps interleaved every finished call has the outcome of the
\* same call run alone on the instance.
RECURSIVE BatchAlone(_, _, _, _)
BatchAlone(obj, texts, k, acc) ==
    IF k > Len(texts) THEN [err |-> "none", ret |-> <<acc>>]
    ELSE IF KeysOfText(obj, texts[k]).err # "none"
         THEN [err |-> KeysOfText(obj, texts[k]).err, ret |-> <<>>]
         ELSE BatchAlone(obj, texts, k + 1, Append(acc, KeysOfText(obj, texts[k]).lsh_keys))

Alone(obj, op, texts) ==
    IF op = "shingles" THEN [err |-> "none", ret |-> <<shingles(obj, texts[1])>>]
    ELSE IF op = "get_lsh_key"
         THEN [err |-> KeysOfText(obj, texts[1]).err,
               ret |-> IF KeysOfText(obj, texts[1]).err = "none"
                       THEN <<KeysOfText(obj, texts[1]).lsh_keys>> ELSE <<>>]
    ELSE BatchAlone(obj, texts, 1, <<>>)

C9_InstanceImmutable ==
    /\ [][life = "constructed" => (self' = self /\ life' = life)]_vars
    /\ [](\A c \in DOMAIN call :
            call[c].pc = "done" =>
                /\ call[c].err = Alone(self, call[c].op, call[c].texts).err
                /\ call[c].ret = Alone(self, call[c].op, call[c].texts).ret)

C9_Witness ==
    /\ Done(1, "get_batch_lsh_key") /\ call[1].err = "none"
    /\ call[2].pc = "running" /\ call[2].op = "get_batch_lsh_key" /\ call[2].i = 1

\* C10: a batch holding a text shorter than shingle_size fails as a whole:
\* the caller gets no key list, wherever the short text stands.
C10_NoPartialBatch ==
    \A c \in DOMAIN call :
        (/\ Done(c, "get_batch_lsh_key")
         /\ \E k \in 1..Len(call[c].texts) : Len(call[c].texts[k]) < self.shingle_size) =>
            /\ call[c].err # "none"
            /\ call[c].ret = <<>>

C10_Witness ==
    \E c \in DOMAIN call :
        /\ Done(c, "get_batch_lsh_key")
        /\ call[c].i >= 1 /\ call[c].all_keys # <<>>
        /\ call[c].i < Len(call[c].texts)
        /\ Len(call[c].texts[call[c].i + 1]) < self.shingle_size
        /\ call[c].err = "ValueError"
        /\ call[c].ret = <<>>
====
